---- MODULE Spec2Model ----
(***************************************************************************)
(* Model of PWGHF/TableProducer/candidateCreatorSigmac0plusplus.cxx:       *)
(*   - HfCandidateCreatorSigmac0plusplus::process (Sigma_c candidate       *)
(*     creation from Lambda_c candidates and soft-pion tracks),            *)
(*   - HfCandidateSigmac0plusplusMc::processMc (MC matching at             *)
(*     reconstruction and generation level).                               *)
(* Masses are in MeV, rapidities in units of the configured cut.           *)
(***************************************************************************)
EXTENDS Integers, Sequences, FiniteSets, TLC

\* ------------------------------------------------------------------ bounds
\* tracks per collision
MaxTracks == 5
\* Lambda_c candidates per collision
MaxCands == 2
\* collisions (calls of process) per batch
MaxEvents == 2

\* ------------------------------------------------------- program constants
\* hf_cand_3prong::DecayType::LcToPKPi
LcToPKPi == 1
\* Configurable mPKPiCandLcMax (0.03 GeV)
mPKPiCandLcMax == 30
\* Configurable mPiKPCandLcMax (0.03 GeV)
mPiKPCandLcMax == 30
\* RecoDecay::getMassPDG(pdg::Code::kLambdaCPlus)
MassLambdaCPlus == 2286

VARIABLES
  yCandLcMax,                   \* Configurable yCandLcMax
  collision,                    \* index of the collision process is called for
  tracks,                       \* tracks of that collision (input table)
  candidates,                   \* candidate rows of that collision read so far (input table)
  pc,                           \* position inside process
  iCand,                        \* position of the loop over candidates
  iTrack,                       \* position of the loop over tracks
  statusSpreadMinvPKPiFromPDG,  \* local of process
  statusSpreadMinvPiKPFromPDG,  \* local of process
  rowScCandidates,              \* Produces<aod::HfCandScBase>
  logFatal,                     \* messages written with LOG(fatal)
  particlesMc,                  \* aod::McParticles (input table)
  tracksMc,                     \* TracksMC: the MC label of each track (input table)
  candSigmac,                   \* the row of candidatesSigmac the loop read last
  nRec,                         \* rows of candidatesSigmac read in this call
  iGen,                         \* position of the loop over particlesMc
  pcMc,                         \* position inside processMc
  indexRec,                     \* local of processMc
  sign,                         \* local of processMc
  flag,                         \* local of processMc
  origin,                       \* local of processMc
  chargeSigmac,                 \* local of processMc
  rowMCMatchScRec,              \* Produces<aod::HfCandScMcRec>
  rowMCMatchScGen,              \* Produces<aod::HfCandScMcGen>
  callNo,                       \* calls of processMc on this particle table
  genFirst,                     \* rowMCMatchScGen at the end of the first call
  indexRecFirst                 \* indexRec at the end of the first call

creatorVars == <<yCandLcMax, collision, tracks, candidates, pc, iCand, iTrack,
                 statusSpreadMinvPKPiFromPDG, statusSpreadMinvPiKPFromPDG,
                 rowScCandidates, logFatal>>

mcVars == <<particlesMc, tracksMc, candSigmac, nRec, iGen, pcMc, indexRec, sign, flag, origin,
            chargeSigmac, rowMCMatchScRec, rowMCMatchScGen, callNo, genFirst, indexRecFirst>>

vars == <<creatorVars, mcVars>>

\* ---------------------------------------------------------------- helpers
Abs(x) == IF x < 0 THEN -x ELSE x

Pow2(n) == IF n = 0 THEN 1 ELSE IF n = 1 THEN 2 ELSE IF n = 2 THEN 4 ELSE 8

\* x & m for a one-bit mask m = 1 << n
TestBit(x, n) == (x \div Pow2(n)) % 2 = 1

\* narrowing conversion to int8_t
ToInt8(x) == ((x + 128) % 256) - 128

\* ----------------------------------------------------------------- inputs
\* global index of the k-th track / candidate of collision e
TrackIndex(e, k) == (e - 1) * MaxTracks + k
CandIndex(e, k) == (e - 1) * MaxCands + k

\* the prongs of the k-th candidate are three consecutive tracks of its collision
ProngSlot(k, j) == ((k + j - 1) % MaxTracks) + 1

\* selection and mass attributes of a Lambda_c candidate.  The candidates reach
\* process through filterSelectCandidateLc, so at least one isSel flag passes.
\* hfflag 6 has the LcToPKPi bit and another one, hfflag 4 lacks it; the masses
\* sit on the edge of the window or just outside it.  A candidate without the
\* bit or outside the rapidity cut has both hypotheses inside their windows; a
\* hypothesis that is not selected has its mass inside the window and the
\* other one outside.
LcKinds ==
  { c \in [hfflag : {4, 6}, y : {-1, 2},
           isSelLcToPKPi : {0, 1}, isSelLcToPiKP : {0, 1},
           invMassLcToPKPi : {MassLambdaCPlus + mPKPiCandLcMax, MassLambdaCPlus + mPKPiCandLcMax + 1},
           invMassLcToPiKP : {MassLambdaCPlus - mPiKPCandLcMax, MassLambdaCPlus - mPiKPCandLcMax - 1}] :
      /\ (c.isSelLcToPKPi >= 1 \/ c.isSelLcToPiKP >= 1)
      /\ (c.isSelLcToPKPi = 0 =>
            /\ c.invMassLcToPKPi = MassLambdaCPlus + mPKPiCandLcMax
            /\ c.invMassLcToPiKP # MassLambdaCPlus - mPiKPCandLcMax)
      /\ (c.isSelLcToPiKP = 0 =>
            /\ c.invMassLcToPiKP = MassLambdaCPlus - mPiKPCandLcMax
            /\ c.invMassLcToPKPi # MassLambdaCPlus + mPKPiCandLcMax)
      /\ (c.hfflag # 6 \/ c.y # -1 =>
            /\ c.isSelLcToPKPi = 1 /\ c.isSelLcToPiKP = 1
            /\ c.invMassLcToPKPi = MassLambdaCPlus + mPKPiCandLcMax
            /\ c.invMassLcToPiKP = MassLambdaCPlus - mPiKPCandLcMax
            /\ (c.hfflag = 6 \/ c.y = -1)) }

MakeTrack(e, k, sg, sl) ==
  [globalIndex |-> TrackIndex(e, k), sign |-> sg, sel |-> sl]

MakeCand(e, k, c) ==
  [globalIndex |-> CandIndex(e, k), collisionId |-> e,
   prong0Id |-> TrackIndex(e, ProngSlot(k, 0)),
   prong1Id |-> TrackIndex(e, ProngSlot(k, 1)),
   prong2Id |-> TrackIndex(e, ProngSlot(k, 2)),
   hfflag |-> c.hfflag, y |-> c.y,
   isSelLcToPKPi |-> c.isSelLcToPKPi, isSelLcToPiKP |-> c.isSelLcToPiKP,
   invMassLcToPKPi |-> c.invMassLcToPKPi, invMassLcToPiKP |-> c.invMassLcToPiKP]

\* sign patterns of the tracks of one collision
SignPatterns == [1..MaxTracks -> {-1, 1}]

\* two of them: the signs alternate, or all are positive but the last
FixedSigns ==
  {[k \in 1..MaxTracks |-> IF alt THEN (IF k % 2 = 0 THEN -1 ELSE 1)
                                  ELSE (IF k = MaxTracks THEN -1 ELSE 1)] : alt \in BOOLEAN}

\* quality-filter patterns: every track passes, or all but one
AllSelected == [k \in 1..MaxTracks |-> TRUE]
SelPatterns == {[k \in 1..MaxTracks |-> k # r] : r \in 0..MaxTracks}

MakeTracks(e, sg, sl) == [k \in 1..MaxTracks |-> MakeTrack(e, k, sg[k], sl[k])]

\* tracks of the first collision: every sign pattern with all tracks passing
\* the filter, and the two fixed sign patterns with every filter pattern
FirstTracks ==
  {MakeTracks(1, sg, AllSelected) : sg \in SignPatterns}
  \cup {MakeTracks(1, sg, sl) : sg \in FixedSigns, sl \in SelPatterns}

\* tracks of the later collisions of the batch: all pass the filter, with one
\* of the two fixed sign patterns
LaterTracks(e) == {MakeTracks(e, sg, AllSelected) : sg \in FixedSigns}

\* ------------------------------------------------- process: the code's terms
\* the candidate row the loop reads next
ReadCand(c) == MakeCand(collision, iCand, c)
candLc == candidates[iCand]
trackSoftPi == tracks[iTrack]

\* prongN_as<Tracks>(): dereference a track index
TrackAt(id) == tracks[id - TrackIndex(collision, 0)]

\* softPiCuts.IsSelected(track)
IsSelected(t) == t.sel

\* candLc.hfflag() & 1 << DecayType::LcToPKPi
HasLcToPKPiBit(c) == TestBit(c.hfflag, LcToPKPi)

\* yCandLcMax >= 0. && std::abs(yLc(candLc)) > yCandLcMax
OutsideRapidity(c) == yCandLcMax >= 0 /\ Abs(c.y) > yCandLcMax

\* StatusPKPi without the test of the selection flag
StatusPKPiNoSel(c) ==
  IF Abs(c.invMassLcToPKPi - MassLambdaCPlus) <= mPKPiCandLcMax THEN 1 ELSE 0

\* isSelLcToPKPi() >= 1 && std::abs(invMassLcToPKPi(candLc) - mass) <= mPKPiCandLcMax
StatusPKPi(c) ==
  IF c.isSelLcToPKPi >= 1 /\ Abs(c.invMassLcToPKPi - MassLambdaCPlus) <= mPKPiCandLcMax
  THEN 1 ELSE 0

\* isSelLcToPiKP() >= 1 && std::abs(invMassLcToPiKP(candLc) - mass) <= mPiKPCandLcMax
StatusPiKP(c) ==
  IF c.isSelLcToPiKP >= 1 /\ Abs(c.invMassLcToPiKP - MassLambdaCPlus) <= mPiKPCandLcMax
  THEN 1 ELSE 0

\* statusSpreadMinvPKPiFromPDG == 0 && statusSpreadMinvPiKPFromPDG == 0
MassWindowRejected(sPKPi, sPiKP) == sPKPi = 0 /\ sPiKP = 0

\* SelfOverlap comparing the first prong only
SelfOverlapFirstProng(c, t) == t.globalIndex = c.prong0Id

\* indexSoftPi == indexProng0 || indexSoftPi == indexProng1 || indexSoftPi == indexProng2
SelfOverlap(c, t) ==
  \/ t.globalIndex = c.prong0Id
  \/ t.globalIndex = c.prong1Id
  \/ t.globalIndex = c.prong2Id

ChargeLc(c) == TrackAt(c.prong0Id).sign + TrackAt(c.prong1Id).sign + TrackAt(c.prong2Id).sign

ChargeSigmac(c, t) == ToInt8(ChargeLc(c) + t.sign)

\* ChargeAnomaly testing only the charge the log message names
ChargeAnomalyUnitOnly(q) == Abs(q) = 1

\* std::abs(chargeSigmac) != 0 && std::abs(chargeSigmac) != 2
ChargeAnomaly(q) == Abs(q) # 0 /\ Abs(q) # 2

ScRow(c, t, q, sPKPi, sPiKP) ==
  [collisionId |-> c.collisionId, prong0Id |-> c.globalIndex, prong1Id |-> t.globalIndex,
   hfflag |-> c.hfflag, charge |-> q,
   statusSpreadMinvPKPiFromPDG |-> sPKPi, statusSpreadMinvPiKPFromPDG |-> sPiKP]

\* --------------------------------------------------------- process: actions
\* processMc is not running
McIdle ==
  /\ particlesMc = <<>>
  /\ tracksMc = <<>>
  /\ candSigmac = <<>>
  /\ nRec = 0
  /\ iGen = 0
  /\ pcMc = "idle"
  /\ indexRec = -1
  /\ sign = 0
  /\ flag = 0
  /\ origin = 0
  /\ chargeSigmac = 10
  /\ rowMCMatchScRec = <<>>
  /\ rowMCMatchScGen = <<>>
  /\ callNo = 0
  /\ genFirst = <<>>
  /\ indexRecFirst = -1

Init ==
  /\ yCandLcMax \in {-1, 1}
  /\ collision = 1
  /\ tracks \in FirstTracks
  /\ candidates = <<>>
  /\ pc = "cand"
  /\ iCand = 1
  /\ iTrack = 0
  /\ statusSpreadMinvPKPiFromPDG = 0
  /\ statusSpreadMinvPiKPFromPDG = 0
  /\ rowScCandidates = <<>>
  /\ logFatal = {}
  /\ McIdle

\* if (!(candLc.hfflag() & 1 << DecayType::LcToPKPi)) continue;
SkipDecayType ==
  /\ UNCHANGED mcVars
  /\ pc = "cand" /\ iCand <= MaxCands
  /\ \E c \in LcKinds :
       /\ ~HasLcToPKPiBit(ReadCand(c))
       /\ candidates' = Append(candidates, ReadCand(c))
  /\ iCand' = iCand + 1
  /\ UNCHANGED <<yCandLcMax, collision, tracks, pc, iTrack, statusSpreadMinvPKPiFromPDG,
                 statusSpreadMinvPiKPFromPDG, rowScCandidates, logFatal>>

\* if (yCandLcMax >= 0. && std::abs(yLc(candLc)) > yCandLcMax) continue;
SkipRapidity ==
  /\ UNCHANGED mcVars
  /\ pc = "cand" /\ iCand <= MaxCands
  /\ \E c \in LcKinds :
       /\ HasLcToPKPiBit(ReadCand(c))
       /\ OutsideRapidity(ReadCand(c))
       /\ candidates' = Append(candidates, ReadCand(c))
  /\ iCand' = iCand + 1
  /\ UNCHANGED <<yCandLcMax, collision, tracks, pc, iTrack, statusSpreadMinvPKPiFromPDG,
                 statusSpreadMinvPiKPFromPDG, rowScCandidates, logFatal>>

\* neither mass hypothesis is inside its window: continue
SkipMassWindow ==
  /\ UNCHANGED mcVars
  /\ pc = "cand" /\ iCand <= MaxCands
  /\ \E c \in LcKinds :
       /\ HasLcToPKPiBit(ReadCand(c))
       /\ ~OutsideRapidity(ReadCand(c))
       /\ MassWindowRejected(StatusPKPi(ReadCand(c)), StatusPiKP(ReadCand(c)))
       /\ statusSpreadMinvPKPiFromPDG' = StatusPKPi(ReadCand(c))
       /\ statusSpreadMinvPiKPFromPDG' = StatusPiKP(ReadCand(c))
       /\ candidates' = Append(candidates, ReadCand(c))
  /\ iCand' = iCand + 1
  /\ UNCHANGED <<yCandLcMax, collision, tracks, pc, iTrack, rowScCandidates, logFatal>>

\* the candidate passes the three selections: start the loop over tracks
EnterTrackLoop ==
  /\ UNCHANGED mcVars
  /\ pc = "cand" /\ iCand <= MaxCands
  /\ \E c \in LcKinds :
       /\ HasLcToPKPiBit(ReadCand(c))
       /\ ~OutsideRapidity(ReadCand(c))
       /\ ~MassWindowRejected(StatusPKPi(ReadCand(c)), StatusPiKP(ReadCand(c)))
       /\ statusSpreadMinvPKPiFromPDG' = StatusPKPi(ReadCand(c))
       /\ statusSpreadMinvPiKPFromPDG' = StatusPiKP(ReadCand(c))
       /\ candidates' = Append(candidates, ReadCand(c))
  /\ pc' = "track"
  /\ iTrack' = 1
  /\ UNCHANGED <<yCandLcMax, collision, tracks, iCand, rowScCandidates, logFatal>>

\* if (!softPiCuts.IsSelected(trackSoftPi)) continue;
SkipNotSelected ==
  /\ UNCHANGED mcVars
  /\ pc = "track" /\ iTrack <= Len(tracks)
  /\ ~IsSelected(trackSoftPi)
  /\ iTrack' = iTrack + 1
  /\ UNCHANGED <<yCandLcMax, collision, tracks, candidates, pc, iCand, statusSpreadMinvPKPiFromPDG,
                 statusSpreadMinvPiKPFromPDG, rowScCandidates, logFatal>>

\* the track is a prong of the candidate: continue
SkipSelfOverlap ==
  /\ UNCHANGED mcVars
  /\ pc = "track" /\ iTrack <= Len(tracks)
  /\ IsSelected(trackSoftPi)
  /\ SelfOverlap(candLc, trackSoftPi)
  /\ iTrack' = iTrack + 1
  /\ UNCHANGED <<yCandLcMax, collision, tracks, candidates, pc, iCand, statusSpreadMinvPKPiFromPDG,
                 statusSpreadMinvPiKPFromPDG, rowScCandidates, logFatal>>

\* SkipChargeAnomaly leaving process instead of going on with the next track
AbortOnChargeAnomaly ==
  /\ UNCHANGED mcVars
  /\ pc = "track" /\ iTrack <= Len(tracks)
  /\ IsSelected(trackSoftPi)
  /\ ~SelfOverlap(candLc, trackSoftPi)
  /\ ChargeAnomaly(ChargeSigmac(candLc, trackSoftPi))
  /\ logFatal' = logFatal \cup {<<ChargeLc(candLc), trackSoftPi.sign>>}
  /\ pc' = "done"
  /\ UNCHANGED <<yCandLcMax, collision, tracks, candidates, iCand, iTrack,
                 statusSpreadMinvPKPiFromPDG, statusSpreadMinvPiKPFromPDG, rowScCandidates>>

\* LOG(fatal) << ... << chargeLc << ... << chargeSoftPi; continue;
SkipChargeAnomaly ==
  /\ UNCHANGED mcVars
  /\ pc = "track" /\ iTrack <= Len(tracks)
  /\ IsSelected(trackSoftPi)
  /\ ~SelfOverlap(candLc, trackSoftPi)
  /\ ChargeAnomaly(ChargeSigmac(candLc, trackSoftPi))
  /\ logFatal' = logFatal \cup {<<ChargeLc(candLc), trackSoftPi.sign>>}
  /\ iTrack' = iTrack + 1
  /\ UNCHANGED <<yCandLcMax, collision, tracks, candidates, pc, iCand, statusSpreadMinvPKPiFromPDG,
                 statusSpreadMinvPiKPFromPDG, rowScCandidates>>

\* FillRow leaving the loop over tracks after the row
FillRowAndBreak ==
  /\ UNCHANGED mcVars
  /\ pc = "track" /\ iTrack <= Len(tracks)
  /\ IsSelected(trackSoftPi)
  /\ ~SelfOverlap(candLc, trackSoftPi)
  /\ ~ChargeAnomaly(ChargeSigmac(candLc, trackSoftPi))
  /\ rowScCandidates' = Append(rowScCandidates,
        ScRow(candLc, trackSoftPi, ChargeSigmac(candLc, trackSoftPi),
              statusSpreadMinvPKPiFromPDG, statusSpreadMinvPiKPFromPDG))
  /\ iTrack' = Len(tracks) + 1
  /\ UNCHANGED <<yCandLcMax, collision, tracks, candidates, pc, iCand, statusSpreadMinvPKPiFromPDG,
                 statusSpreadMinvPiKPFromPDG, logFatal>>

\* rowScCandidates(...)
FillRow ==
  /\ UNCHANGED mcVars
  /\ pc = "track" /\ iTrack <= Len(tracks)
  /\ IsSelected(trackSoftPi)
  /\ ~SelfOverlap(candLc, trackSoftPi)
  /\ ~ChargeAnomaly(ChargeSigmac(candLc, trackSoftPi))
  /\ rowScCandidates' = Append(rowScCandidates,
        ScRow(candLc, trackSoftPi, ChargeSigmac(candLc, trackSoftPi),
              statusSpreadMinvPKPiFromPDG, statusSpreadMinvPiKPFromPDG))
  /\ iTrack' = iTrack + 1
  /\ UNCHANGED <<yCandLcMax, collision, tracks, candidates, pc, iCand, statusSpreadMinvPKPiFromPDG,
                 statusSpreadMinvPiKPFromPDG, logFatal>>

\* end of the loop over tracks: next candidate
EndTrackLoop ==
  /\ UNCHANGED mcVars
  /\ pc = "track" /\ iTrack > Len(tracks)
  /\ pc' = "cand"
  /\ iCand' = iCand + 1
  /\ UNCHANGED <<yCandLcMax, collision, tracks, candidates, iTrack, statusSpreadMinvPKPiFromPDG,
                 statusSpreadMinvPiKPFromPDG, rowScCandidates, logFatal>>

\* the candidate table of the collision is exhausted: process returns
EndProcess ==
  /\ UNCHANGED mcVars
  /\ pc = "cand"
  /\ pc' = "done"
  /\ UNCHANGED <<yCandLcMax, collision, tracks, candidates, iCand, iTrack,
                 statusSpreadMinvPKPiFromPDG, statusSpreadMinvPiKPFromPDG,
                 rowScCandidates, logFatal>>

\* the framework calls process for the next collision of the batch;
\* rowScCandidates then holds the rows of the new call
NextEvent ==
  /\ UNCHANGED mcVars
  /\ pc = "done" /\ collision < MaxEvents
  /\ collision' = collision + 1
  /\ tracks' \in LaterTracks(collision + 1)
  /\ candidates' = <<>>
  /\ rowScCandidates' = <<>>
  /\ pc' = "cand"
  /\ iCand' = 1
  /\ UNCHANGED <<yCandLcMax, iTrack, statusSpreadMinvPKPiFromPDG,
                 statusSpreadMinvPiKPFromPDG, logFatal>>

Next ==
  \/ SkipDecayType
  \/ SkipRapidity
  \/ SkipMassWindow
  \/ EnterTrackLoop
  \/ SkipNotSelected
  \/ SkipSelfOverlap
  \/ SkipChargeAnomaly
  \/ FillRow
  \/ EndTrackLoop
  \/ EndProcess
  \/ NextEvent

Spec == Init /\ [][Next]_vars

\* =================================================================
\* HfCandidateSigmac0plusplusMc::processMc
\* =================================================================

\* ------------------------------------------------------------------ bounds
\* rows of candidatesSigmac per call
MaxRec == 2
\* calls of processMc on the same particle table
MaxCalls == 2

\* ------------------------------------------------------- program constants
kProton == 2212
kKPlus == 321
kPiPlus == 211
kPiMinus == -211
kLambdaCPlus == 4122
kSigmaC0 == 4112
kSigmaCPlusPlus == 4222
\* hf_cand_sigmac::DecayType
Sc0ToPKPiPi == 0
ScplusplusToPKPiPi == 1
\* RecoDecay::OriginType
Prompt == 1
NonPrompt == 2

\* ----------------------------------------------------------------- inputs
McParticle(code, mother, daughters) ==
  [pdgCode |-> code, mother |-> mother, daughters |-> daughters]

\* the particles of global index 0, 1, ...: a root (a B0 or a charm quark), the
\* Sigma_c decaying into Lambda_c and a pion, the Lambda_c decaying into
\* p K pi directly, through a K*0, or into p K0, and two unrelated pions
McTable(top, cc, decay, beauty) ==
  LET kB0 == 511
      kCharm == 4
      kK0 == 311
      kK0Star892 == 313
  IN
  <<McParticle(cc * (IF beauty THEN kB0 ELSE kCharm), -1, <<1>>),
    McParticle(cc * top, 0, <<2, 3>>),
    McParticle(cc * kLambdaCPlus, 1, IF decay = "direct" THEN <<4, 5, 6>> ELSE <<4, 5>>),
    McParticle(cc * (IF top = kSigmaC0 THEN kPiMinus ELSE kPiPlus), 1, <<>>),
    McParticle(cc * kProton, 2, <<>>)>>
  \o (CASE decay = "direct" ->
             <<McParticle(-cc * kKPlus, 2, <<>>), McParticle(cc * kPiPlus, 2, <<>>)>>
        [] decay = "resonant" ->
             <<McParticle(-cc * kK0Star892, 2, <<6, 7>>),
               McParticle(-cc * kKPlus, 5, <<>>), McParticle(cc * kPiPlus, 5, <<>>)>>
        [] decay = "other" ->
             <<McParticle(-cc * kK0, 2, <<>>)>>)
  \o <<McParticle(kPiPlus, -1, <<>>), McParticle(kPiMinus, -1, <<>>)>>

\* the MC particle of the tracks of global index 0..6: the proton, the kaon and
\* the pion of the Lambda_c (unrelated pions when it decays otherwise), the
\* soft pion, the two unrelated pions and a track without MC particle
McLabels(decay) ==
  CASE decay = "direct" -> <<4, 5, 6, 3, 7, 8, -1>>
    [] decay = "resonant" -> <<4, 6, 7, 3, 8, 9, -1>>
    [] decay = "other" -> <<4, 7, 6, 3, 6, 7, -1>>

McInputs ==
  {[particles |-> McTable(top, cc, decay, beauty), labels |-> McLabels(decay)] :
     top \in {kSigmaC0, kSigmaCPlusPlus}, cc \in {-1, 1},
     decay \in {"direct", "resonant", "other"}, beauty \in BOOLEAN}

\* rows of candidatesSigmac, joined with their Lambda_c candidate: the prong
\* tracks, flagMcMatchRec, the soft-pion track and the charge
SigmacKinds ==
  {c \in [prong0Id : {2}, prong1Id : {1}, prong2Id : {0, 4},
          flagMcMatchRec : {-2, 0, 2, 4},
          softPiId : {3, 5, 6},
          charge : {-2, 0, 2}] :
     c.flagMcMatchRec # 2 => (c.prong2Id = 0 /\ c.softPiId = 3)}

\* ----------------------------------------------------- RecoDecay (helpers)
\* particlesMc.rawIteratorAt(index)
ParticleAt(index) == particlesMc[index + 1]

IsValidIndex(index) == index \in 0..(Len(particlesMc) - 1)

\* RecoDecay::getMother: the closest ancestor, at most depthMax levels up, of
\* species PDGMother or its antiparticle; <<index, sign>>, index -1 if none
RECURSIVE GetMother(_, _, _)
GetMother(index, PDGMother, depthMax) ==
  LET m == ParticleAt(index).mother
  IN IF depthMax = 0 \/ m = -1 THEN <<-1, 0>>
     ELSE IF ParticleAt(m).pdgCode = PDGMother THEN <<m, 1>>
     ELSE IF ParticleAt(m).pdgCode = -PDGMother THEN <<m, -1>>
     ELSE GetMother(m, PDGMother, depthMax - 1)

\* RecoDecay::getDaughters: the final daughters of a particle down to depthMax
\* levels; a daughter of an expected final species is not followed further
RECURSIVE GetDaughters(_, _, _, _)
RECURSIVE GetDaughtersOfAll(_, _, _, _)
GetDaughters(index, arrPDGFinal, depthMax, stage) ==
  LET p == ParticleAt(index)
      isFinal ==
        \/ stage >= depthMax
        \/ (p.daughters = <<>> /\ stage > 0)
        \/ (stage > 0 /\ \E k \in 1..Len(arrPDGFinal) : Abs(p.pdgCode) = Abs(arrPDGFinal[k]))
  IN IF isFinal THEN <<index>>
     ELSE GetDaughtersOfAll(p.daughters, arrPDGFinal, depthMax, stage + 1)
GetDaughtersOfAll(ds, arrPDGFinal, depthMax, stage) ==
  IF ds = <<>> THEN <<>>
  ELSE GetDaughters(Head(ds), arrPDGFinal, depthMax, stage)
       \o GetDaughtersOfAll(Tail(ds), arrPDGFinal, depthMax, stage)

\* the loops that tick the PDG codes off the expected ones: every code must
\* equal sgn times an expected code not yet ticked off
RECURSIVE MatchPdgCodes(_, _, _)
MatchPdgCodes(codes, sgn, arrPDG) ==
  IF codes = <<>> THEN TRUE
  ELSE LET hits == {k \in 1..Len(arrPDG) : Head(codes) = sgn * arrPDG[k]}
       IN IF hits = {} THEN FALSE
          ELSE LET k == CHOOSE kk \in hits : \A k2 \in hits : kk <= k2
               IN MatchPdgCodes(Tail(codes), sgn, [arrPDG EXCEPT ![k] = 0])

SeqToSet(q) == {q[k] : k \in 1..Len(q)}

\* RecoDecay::getMatchedMCRec with acceptAntiParticles = true: <<index of the
\* matched mother, sign>>, <<-1, 0>> if the prongs do not match
GetMatchedMCRec(arrDaughters, PDGMother, arrPDGDaughters, depthMax) ==
  LET n == Len(arrDaughters)
      labels == [k \in 1..n |-> tracksMc[arrDaughters[k] + 1]]
  IN IF \E k \in 1..n : labels[k] = -1 THEN <<-1, 0>>
     ELSE LET mo == GetMother(labels[1], PDGMother, depthMax)
          IN IF mo[1] <= -1 THEN <<-1, 0>>
             ELSE LET mother == ParticleAt(mo[1])
                      all == GetDaughters(mo[1], arrPDGDaughters, depthMax, 0)
                  IN IF \/ mother.daughters = <<>>
                        \/ Len(mother.daughters) > n
                        \/ Len(all) # n
                        \/ \E k \in 1..n : labels[k] \notin SeqToSet(all)
                        \/ \E k1, k2 \in 1..n : k1 # k2 /\ labels[k1] = labels[k2]
                        \/ ~MatchPdgCodes([k \in 1..n |-> ParticleAt(labels[k]).pdgCode],
                                          mo[2], arrPDGDaughters)
                     THEN <<-1, 0>>
                     ELSE mo

\* RecoDecay::isMatchedMCGen with acceptAntiParticles = true: whether the
\* particle is of species PDGParticle (or its antiparticle) and decays into
\* the expected daughters; the sign written through the pointer (0 if no match)
IsMatchedMCGen(index, PDGParticle, arrPDGDaughters, depthMax) ==
  LET p == ParticleAt(index)
      sgn == IF p.pdgCode = PDGParticle THEN 1
             ELSE IF p.pdgCode = -PDGParticle THEN -1 ELSE 0
      all == GetDaughters(index, arrPDGDaughters, depthMax, 0)
      ok == /\ sgn # 0
            /\ p.daughters # <<>>
            /\ Len(p.daughters) <= Len(arrPDGDaughters)
            /\ Len(all) = Len(arrPDGDaughters)
            /\ MatchPdgCodes([k \in 1..Len(all) |-> ParticleAt(all[k]).pdgCode],
                             sgn, arrPDGDaughters)
  IN [ok |-> ok, sign |-> IF ok THEN sgn ELSE 0]

\* RecoDecay::getCharmHadronOrigin: non-prompt if an ancestor is a beauty hadron
RECURSIVE HasBeautyAncestor(_)
HasBeautyAncestor(index) ==
  LET m == ParticleAt(index).mother
  IN IF m = -1 THEN FALSE
     ELSE \/ Abs(ParticleAt(m).pdgCode) \div 100 = 5
          \/ Abs(ParticleAt(m).pdgCode) \div 1000 = 5
          \/ HasBeautyAncestor(m)

GetCharmHadronOrigin(index) == IF HasBeautyAncestor(index) THEN NonPrompt ELSE Prompt

\* getCharmHadronOrigin(particlesMc, particlesMc.rawIteratorAt(index)): the
\* values it can return; an index outside the table reads memory that is not
\* a row of the table, and any origin code can come out
OriginOutcomes(index) ==
  IF IsValidIndex(index) THEN {GetCharmHadronOrigin(index)} ELSE {0, Prompt, NonPrompt}

\* ----------------------------------------------- processMc: the code's terms
\* std::abs(candLc.flagMcMatchRec()) == 1 << DecayType::LcToPKPi
IsLcMatchedNonZero(c) == c.flagMcMatchRec # 0

IsLcMatched(c) == Abs(c.flagMcMatchRec) = Pow2(LcToPKPi)

\* array{candLc.prong0, candLc.prong1, candLc.prong2, candSigmac.prong1}
ArrayDaughters(c) == <<c.prong0Id, c.prong1Id, c.prong2Id, c.softPiId>>

PatternSc0 == <<kProton, -kKPlus, kPiPlus, -kPiPlus>>
PatternScPlusPlus == <<kProton, -kKPlus, kPiPlus, kPiPlus>>
PatternLc == <<kProton, -kKPlus, kPiPlus>>

\* the two getMatchedMCRec calls, chosen by the charge of the candidate
MatchRec(c) ==
  IF c.charge = 0
  THEN GetMatchedMCRec(ArrayDaughters(c), kSigmaC0, PatternSc0, 3)
  ELSE IF Abs(c.charge) = 2
  THEN GetMatchedMCRec(ArrayDaughters(c), kSigmaCPlusPlus, PatternScPlusPlus, 3)
  ELSE <<-1, 0>>

\* RecFlag with the channel of the Sigma_c0 in both branches
RecFlagSc0Only(q, sgn) == ToInt8(sgn * Pow2(Sc0ToPKPiPi))

\* flag = sign * (1 << aod::hf_cand_sigmac::DecayType::...)
RecFlag(q, sgn) ==
  IF q = 0 THEN ToInt8(sgn * Pow2(Sc0ToPKPiPi)) ELSE ToInt8(sgn * Pow2(ScplusplusToPKPiPi))

LabelRow(f, o) == [flag |-> f, origin |-> o]

\* the particle handed to the second isMatchedMCGen call, were it the daughter
LcMatchTargetDaughter(particle, daughter) == daughter

\* the particle handed to the second isMatchedMCGen call
LcMatchTarget(particle, daughter) == particle

\* the loop over the daughters of a generated Sigma_c: flag and sign after it
RECURSIVE DaughterLoop(_, _, _, _)
DaughterLoop(particle, ds, channel, sgn) ==
  IF ds = <<>> THEN [flag |-> 0, sign |-> sgn]
  ELSE IF Abs(ParticleAt(Head(ds)).pdgCode) # kLambdaCPlus
  THEN DaughterLoop(particle, Tail(ds), channel, sgn)
  ELSE LET r == IsMatchedMCGen(LcMatchTarget(particle, Head(ds)), kLambdaCPlus, PatternLc, 2)
       IN IF r.ok THEN [flag |-> ToInt8(r.sign * Pow2(channel)), sign |-> r.sign]
          ELSE DaughterLoop(particle, Tail(ds), channel, r.sign)

GenMatchSc0(particle) == IsMatchedMCGen(particle, kSigmaC0, <<kLambdaCPlus, kPiMinus>>, 1)
GenMatchScPlusPlus(particle) == IsMatchedMCGen(particle, kSigmaCPlusPlus, <<kLambdaCPlus, kPiPlus>>, 1)

\* ------------------------------------------------------ processMc: actions
CreatorIdle ==
  /\ yCandLcMax = -1
  /\ collision = 0
  /\ tracks = <<>>
  /\ candidates = <<>>
  /\ pc = "idle"
  /\ iCand = 0
  /\ iTrack = 0
  /\ statusSpreadMinvPKPiFromPDG = 0
  /\ statusSpreadMinvPiKPFromPDG = 0
  /\ rowScCandidates = <<>>
  /\ logFatal = {}

InitMc ==
  /\ CreatorIdle
  /\ \E in \in McInputs : particlesMc = in.particles /\ tracksMc = in.labels
  /\ candSigmac = <<>>
  /\ nRec = 0
  /\ iGen = 0
  /\ pcMc = "rec"
  /\ indexRec = -1
  /\ sign = 0
  /\ flag = 0
  /\ origin = 0
  /\ chargeSigmac = 10
  /\ rowMCMatchScRec = <<>>
  /\ rowMCMatchScGen = <<>>
  /\ callNo = 1
  /\ genFirst = <<>>
  /\ indexRecFirst = -1

\* RecShortCircuit leaving the loop body without a label row
RecShortCircuitNoRow ==
  /\ UNCHANGED creatorVars
  /\ pcMc = "rec" /\ nRec < MaxRec
  /\ \E c \in SigmacKinds :
       /\ ~IsLcMatched(c)
       /\ candSigmac' = c
  /\ nRec' = nRec + 1
  /\ indexRec' = -1
  /\ sign' = 0
  /\ flag' = 0
  /\ origin' = 0
  /\ UNCHANGED <<particlesMc, tracksMc, iGen, pcMc, chargeSigmac, rowMCMatchScRec,
                 rowMCMatchScGen, callNo, genFirst, indexRecFirst>>

\* the Lambda_c of the candidate is not matched: label (flag, origin) and continue
RecShortCircuit ==
  /\ UNCHANGED creatorVars
  /\ pcMc = "rec" /\ nRec < MaxRec
  /\ \E c \in SigmacKinds :
       /\ ~IsLcMatched(c)
       /\ candSigmac' = c
  /\ nRec' = nRec + 1
  /\ indexRec' = -1
  /\ sign' = 0
  /\ flag' = 0
  /\ origin' = 0
  /\ rowMCMatchScRec' = Append(rowMCMatchScRec, LabelRow(flag', origin'))
  /\ UNCHANGED <<particlesMc, tracksMc, iGen, pcMc, chargeSigmac, rowMCMatchScGen,
                 callNo, genFirst, indexRecFirst>>

\* the rest of the loop body for a candidate c whose Lambda_c is matched
RecMatch(c) ==
  /\ candSigmac' = c
  /\ nRec' = nRec + 1
  /\ chargeSigmac' = c.charge
  /\ indexRec' = MatchRec(c)[1]
  /\ sign' = MatchRec(c)[2]
  /\ flag' = IF MatchRec(c)[1] > -1 THEN RecFlag(c.charge, MatchRec(c)[2]) ELSE 0
  /\ origin' \in (IF flag' # 0 THEN OriginOutcomes(indexRec') ELSE {0})
  /\ rowMCMatchScRec' = Append(rowMCMatchScRec, LabelRow(flag', origin'))
  /\ UNCHANGED <<particlesMc, tracksMc, iGen, pcMc, rowMCMatchScGen, callNo, genFirst, indexRecFirst>>

\* candidate Sigma_c0
RecMatchSigmaC0 ==
  /\ UNCHANGED creatorVars
  /\ pcMc = "rec" /\ nRec < MaxRec
  /\ \E c \in SigmacKinds : IsLcMatched(c) /\ c.charge = 0 /\ RecMatch(c)

\* candidate Sigma_c++
RecMatchSigmaCPlusPlus ==
  /\ UNCHANGED creatorVars
  /\ pcMc = "rec" /\ nRec < MaxRec
  /\ \E c \in SigmacKinds : IsLcMatched(c) /\ c.charge # 0 /\ RecMatch(c)

\* candidatesSigmac is exhausted: on to the loop over particlesMc
RecEnd ==
  /\ UNCHANGED creatorVars
  /\ pcMc = "rec"
  /\ pcMc' = "gen"
  /\ iGen' = 0
  /\ UNCHANGED <<particlesMc, tracksMc, candSigmac, nRec, indexRec, sign, flag, origin,
                 chargeSigmac, rowMCMatchScRec, rowMCMatchScGen, callNo, genFirst, indexRecFirst>>

\* the end of the body of the loop over particlesMc: origin and label row
GenFill(r) ==
  /\ flag' = r.flag
  /\ sign' = r.sign
  /\ origin' \in (IF r.flag # 0 THEN OriginOutcomes(indexRec) ELSE {0})
  /\ rowMCMatchScGen' = Append(rowMCMatchScGen, LabelRow(flag', origin'))
  /\ iGen' = iGen + 1
  /\ UNCHANGED <<particlesMc, tracksMc, candSigmac, nRec, pcMc, indexRec, chargeSigmac,
                 rowMCMatchScRec, callNo, genFirst, indexRecFirst>>

\* generated Sigma_c0
GenSigmaC0 ==
  /\ UNCHANGED creatorVars
  /\ pcMc = "gen" /\ iGen < Len(particlesMc)
  /\ GenMatchSc0(iGen).ok
  /\ GenFill(DaughterLoop(iGen, ParticleAt(iGen).daughters, Sc0ToPKPiPi, GenMatchSc0(iGen).sign))

\* generated Sigma_c++
GenSigmaCPlusPlus ==
  /\ UNCHANGED creatorVars
  /\ pcMc = "gen" /\ iGen < Len(particlesMc)
  /\ ~GenMatchSc0(iGen).ok
  /\ GenMatchScPlusPlus(iGen).ok
  /\ GenFill(DaughterLoop(iGen, ParticleAt(iGen).daughters, ScplusplusToPKPiPi,
                          GenMatchScPlusPlus(iGen).sign))

\* neither: the label stays (0, 0)
GenNoMatch ==
  /\ UNCHANGED creatorVars
  /\ pcMc = "gen" /\ iGen < Len(particlesMc)
  /\ ~GenMatchSc0(iGen).ok
  /\ ~GenMatchScPlusPlus(iGen).ok
  /\ GenFill([flag |-> 0, sign |-> 0])

\* end of the loop over particlesMc: processMc returns
GenEnd ==
  /\ UNCHANGED creatorVars
  /\ pcMc = "gen" /\ iGen = Len(particlesMc)
  /\ pcMc' = "done"
  /\ genFirst' = IF callNo = 1 THEN rowMCMatchScGen ELSE genFirst
  /\ indexRecFirst' = IF callNo = 1 THEN indexRec ELSE indexRecFirst
  /\ UNCHANGED <<particlesMc, tracksMc, candSigmac, nRec, iGen, indexRec, sign, flag, origin,
                 chargeSigmac, rowMCMatchScRec, rowMCMatchScGen, callNo>>

\* processMc is called again with the same particle table and other candidates
NextCall ==
  /\ UNCHANGED creatorVars
  /\ pcMc = "done" /\ callNo < MaxCalls
  /\ callNo' = callNo + 1
  /\ pcMc' = "rec"
  /\ candSigmac' = <<>>
  /\ nRec' = 0
  /\ iGen' = 0
  /\ indexRec' = -1
  /\ sign' = 0
  /\ flag' = 0
  /\ origin' = 0
  /\ chargeSigmac' = 10
  /\ rowMCMatchScRec' = <<>>
  /\ rowMCMatchScGen' = <<>>
  /\ UNCHANGED <<particlesMc, tracksMc, genFirst, indexRecFirst>>

NextMc ==
  \/ RecShortCircuit
  \/ RecMatchSigmaC0
  \/ RecMatchSigmaCPlusPlus
  \/ RecEnd
  \/ GenSigmaC0
  \/ GenSigmaCPlusPlus
  \/ GenNoMatch
  \/ GenEnd
  \/ NextCall

SpecMc == InitMc /\ [][NextMc]_vars

\* ======================================================= claims on process
RowIds == 1..Len(rowScCandidates)
CandIds == 1..Len(candidates)
TrackIds == 1..Len(tracks)

\* the candidate and the track a row of the current call refers to
RowCand(r) == candidates[r.prong0Id - CandIndex(collision, 0)]
RowTrack(r) == tracks[r.prong1Id - TrackIndex(collision, 0)]

ProngIds(c) == {c.prong0Id, c.prong1Id, c.prong2Id}

SignOf(id) == tracks[id - TrackIndex(collision, 0)].sign

\* sum of the three prong signs and the soft-pion sign
NetCharge(c, t) == SignOf(c.prong0Id) + SignOf(c.prong1Id) + SignOf(c.prong2Id) + t.sign

InWindowPKPi(c) ==
  /\ c.isSelLcToPKPi >= 1
  /\ c.invMassLcToPKPi \in (MassLambdaCPlus - mPKPiCandLcMax)..(MassLambdaCPlus + mPKPiCandLcMax)

InWindowPiKP(c) ==
  /\ c.isSelLcToPiKP >= 1
  /\ c.invMassLcToPiKP \in (MassLambdaCPlus - mPiKPCandLcMax)..(MassLambdaCPlus + mPiKPCandLcMax)

QualifyingLc(c) ==
  /\ c.hfflag \in {2, 3, 6, 7}
  /\ (yCandLcMax < 0 \/ c.y \in (0 - yCandLcMax)..yCandLcMax)
  /\ (InWindowPKPi(c) \/ InWindowPiKP(c))

QualifyingTrack(c, t) ==
  /\ t.sel
  /\ t.globalIndex \notin ProngIds(c)
  /\ NetCharge(c, t) \in {-2, 0, 2}

AnomalousPair(c, t) ==
  /\ t.sel
  /\ t.globalIndex \notin ProngIds(c)
  /\ NetCharge(c, t) \notin {-2, 0, 2}

\* C1: every emitted Sigma_c row has net charge -2, 0 or +2.
C1_ChargeDomain ==
  \A i \in RowIds :
    /\ rowScCandidates[i].charge \in {-2, 0, 2}
    /\ rowScCandidates[i].charge = NetCharge(RowCand(rowScCandidates[i]), RowTrack(rowScCandidates[i]))

\* a candidate of charge -3 met a negative track (charge -4, dropped) and a
\* positive one (charge -2, emitted)
C1_Witness ==
  /\ pc = "done"
  /\ <<-3, -1>> \in logFatal
  /\ \E i \in RowIds : rowScCandidates[i].charge = -2

\* C2: the soft pion of an emitted row is none of the three prongs of its Lambda_c.
C2_NoSelfPairing ==
  \A i \in RowIds :
    rowScCandidates[i].prong1Id \notin ProngIds(RowCand(rowScCandidates[i]))

\* a candidate emitted a row while one of its prongs passed the track filter
\* and would have given a valid charge
C2_Witness ==
  /\ pc = "done"
  /\ \E i \in RowIds : \E k \in TrackIds :
       /\ tracks[k].sel
       /\ tracks[k].globalIndex = RowCand(rowScCandidates[i]).prong2Id
       /\ NetCharge(RowCand(rowScCandidates[i]), tracks[k]) \in {-2, 0, 2}

\* C3: a candidate passing neither mass hypothesis yields no row; every row
\* has at least one status flag set, and a flag is set only for a hypothesis
\* that is selected and inside its window.
C3_MassWindowGating ==
  /\ \A i \in RowIds :
       /\ (rowScCandidates[i].statusSpreadMinvPKPiFromPDG = 1
             \/ rowScCandidates[i].statusSpreadMinvPiKPFromPDG = 1)
       /\ (rowScCandidates[i].statusSpreadMinvPKPiFromPDG = 1
             => InWindowPKPi(RowCand(rowScCandidates[i])))
       /\ (rowScCandidates[i].statusSpreadMinvPiKPFromPDG = 1
             => InWindowPiKP(RowCand(rowScCandidates[i])))
  /\ \A k \in CandIds :
       ~InWindowPKPi(candidates[k]) /\ ~InWindowPiKP(candidates[k])
         => \A i \in RowIds : rowScCandidates[i].prong0Id # candidates[k].globalIndex

\* a candidate with the decay bit, inside the rapidity cut and outside both
\* windows was handled while a track qualified for it, next to one that gave rows
C3_Witness ==
  /\ pc = "done"
  /\ rowScCandidates # <<>>
  /\ \E k \in CandIds :
       /\ candidates[k].hfflag = 6
       /\ candidates[k].y = -1
       /\ ~InWindowPKPi(candidates[k]) /\ ~InWindowPiKP(candidates[k])
       /\ \E j \in TrackIds : QualifyingTrack(candidates[k], tracks[j])

QualifyingLcs == {k \in CandIds : QualifyingLc(candidates[k])}
QualifyingTracks(k) == {j \in TrackIds : QualifyingTrack(candidates[k], tracks[j])}
AcceptedPairs ==
  UNION {{<<candidates[k].globalIndex, tracks[j].globalIndex>> : j \in QualifyingTracks(k)} :
           k \in QualifyingLcs}
RowPairs == {<<rowScCandidates[i].prong0Id, rowScCandidates[i].prong1Id>> : i \in RowIds}

\* C6: when process returns, the rows are the accepted (Lambda_c, track) pairs,
\* each once: M x N rows for M qualifying candidates with N qualifying tracks each.
C6_CombinatorialCompleteness ==
  pc = "done" =>
    /\ RowPairs = AcceptedPairs
    /\ Len(rowScCandidates) = Cardinality(AcceptedPairs)
    /\ \A n \in 0..MaxTracks :
         (\A k \in QualifyingLcs : Cardinality(QualifyingTracks(k)) = n)
           => Len(rowScCandidates) = Cardinality(QualifyingLcs) * n

\* two qualifying candidates with two qualifying tracks each gave four rows
C6_Witness ==
  /\ pc = "done"
  /\ Cardinality(QualifyingLcs) = 2
  /\ \A k \in QualifyingLcs : Cardinality(QualifyingTracks(k)) = 2
  /\ Len(rowScCandidates) = 4

\* the (candidate, track) pairs in the order the loops visit them
PairAt(n) == <<candidates[((n - 1) \div Len(tracks)) + 1], tracks[((n - 1) % Len(tracks)) + 1]>>
PairSeq == [n \in 1..(Len(candidates) * Len(tracks)) |-> PairAt(n)]
IsAccepted(p) == QualifyingLc(p[1]) /\ QualifyingTrack(p[1], p[2])
ExpectedRow(p) ==
  [collisionId |-> collision, prong0Id |-> p[1].globalIndex, prong1Id |-> p[2].globalIndex,
   hfflag |-> p[1].hfflag, charge |-> NetCharge(p[1], p[2]),
   statusSpreadMinvPKPiFromPDG |-> IF InWindowPKPi(p[1]) THEN 1 ELSE 0,
   statusSpreadMinvPiKPFromPDG |-> IF InWindowPiKP(p[1]) THEN 1 ELSE 0]
ExpectedRows ==
  LET acc == SelectSeq(PairSeq, IsAccepted)
  IN [n \in 1..Len(acc) |-> ExpectedRow(acc[n])]
AnomalousTracks(k) == {j \in TrackIds : AnomalousPair(candidates[k], tracks[j])}
AnomalyMessages ==
  UNION {{<<NetCharge(candidates[k], tracks[j]) - tracks[j].sign, tracks[j].sign>> :
            j \in AnomalousTracks(k)} : k \in QualifyingLcs}

LastRecRow == rowMCMatchScRec[Len(rowMCMatchScRec)]

IsPrefixOf(a, b) == Len(a) <= Len(b) /\ SubSeq(b, 1, Len(a)) = a

RowCounts ==
  /\ Len(rowMCMatchScRec) = nRec
  /\ pcMc = "rec" => rowMCMatchScGen = <<>>
  /\ pcMc \in {"gen", "done"} => Len(rowMCMatchScGen) = iGen
  /\ pcMc = "done" => Len(rowMCMatchScGen) = Len(particlesMc)

RowPerInput ==
  /\ nRec' = nRec + 1 =>
       /\ Len(rowMCMatchScRec') = nRec + 1
       /\ IsPrefixOf(rowMCMatchScRec, rowMCMatchScRec')
  /\ (pcMc = "gen" /\ iGen' = iGen + 1) =>
       /\ Len(rowMCMatchScGen') = iGen + 1
       /\ IsPrefixOf(rowMCMatchScGen, rowMCMatchScGen')
  /\ (callNo' = callNo /\ nRec' = nRec) => rowMCMatchScRec' = rowMCMatchScRec
  /\ (callNo' = callNo /\ iGen' = iGen) => rowMCMatchScGen' = rowMCMatchScGen

\* C4: one call of processMc emits exactly one reconstruction-level row per
\* candidate consumed and one generation-level row per generated particle, on
\* every path through the loops; a row is appended at the step that consumes
\* its input row, after the rows of the earlier inputs, which stay as they are
C4_MatcherOrderAlignment == []RowCounts /\ [][RowPerInput]_vars

\* a finished call with two candidates, the first matched and the second
\* short-circuited, and one generation-level row per particle
C4_Witness ==
  /\ pcMc = "done"
  /\ nRec = MaxRec
  /\ rowMCMatchScRec[1].flag # 0
  /\ Abs(candSigmac.flagMcMatchRec) # Pow2(LcToPKPi)
  /\ Len(rowMCMatchScGen) = Len(particlesMc)

\* C5: a candidate whose Lambda_c has |flagMcMatchRec| other than
\* 1 << LcToPKPi gets the reconstruction-level label (0, 0), whatever its
\* tracks are matched to and whatever the earlier candidates got
C5_MatcherShortCircuit ==
  (nRec > 0 /\ Abs(candSigmac.flagMcMatchRec) # Pow2(LcToPKPi)) =>
    LastRecRow = [flag |-> 0, origin |-> 0]

\* the second candidate has flagMcMatchRec = 4 and tracks that are the true
\* daughters of the Sigma_c of the table, after a first candidate labelled
\* with a nonzero flag
C5_Witness ==
  /\ nRec = 2
  /\ candSigmac.flagMcMatchRec = 4
  /\ MatchRec(candSigmac)[1] > -1
  /\ rowMCMatchScRec[1].flag # 0
  /\ rowMCMatchScRec[2] = [flag |-> 0, origin |-> 0]

\* the parent and the daughter pattern the claim names for a charge
ExpectedRecMatch(c) ==
  IF c.charge = 0
  THEN GetMatchedMCRec(ArrayDaughters(c), kSigmaC0, <<kProton, -kKPlus, kPiPlus, -kPiPlus>>, 3)
  ELSE GetMatchedMCRec(ArrayDaughters(c), kSigmaCPlusPlus, <<kProton, -kKPlus, kPiPlus, kPiPlus>>, 3)

ExpectedChannel(c) == IF c.charge = 0 THEN Sc0ToPKPiPi ELSE ScplusplusToPKPiPi

\* C10: for a candidate that passes the short-circuit the flag is nonzero only
\* if the depth-3 match against the parent and pattern of its charge
\* succeeds, it is then sign x (1 << channel of that charge), and origin is
\* the origin of the matched ancestor in that case and 0 otherwise
C10_RecChannelAndOrigin ==
  (nRec > 0 /\ Abs(candSigmac.flagMcMatchRec) = Pow2(LcToPKPi)) =>
    LET m == ExpectedRecMatch(candSigmac)
    IN /\ LastRecRow.flag # 0 => m[1] > -1
       /\ m[1] > -1 => LastRecRow.flag = m[2] * Pow2(ExpectedChannel(candSigmac))
       /\ LastRecRow.origin =
            IF LastRecRow.flag # 0 THEN GetCharmHadronOrigin(m[1]) ELSE 0

\* an anti-Sigma_c++ from a beauty hadron matched by a candidate of charge -2,
\* after a candidate of charge 0 that passed the short-circuit unmatched
C10_Witness ==
  /\ nRec = 2
  /\ Abs(candSigmac.flagMcMatchRec) = Pow2(LcToPKPi)
  /\ candSigmac.charge = -2
  /\ LastRecRow = [flag |-> -2, origin |-> NonPrompt]
  /\ rowMCMatchScRec[1] = [flag |-> 0, origin |-> 0]

\* the generated particle is a Sigma_c of species top decaying into a
\* Lambda_c and the pion, with a Lambda_c daughter decaying into p K pi
TrueSigmacChain(index, top, pion) ==
  /\ IsMatchedMCGen(index, top, <<kLambdaCPlus, pion>>, 1).ok
  /\ \E k \in 1..Len(ParticleAt(index).daughters) :
       LET d == ParticleAt(index).daughters[k]
       IN /\ Abs(ParticleAt(d).pdgCode) = kLambdaCPlus
          /\ IsMatchedMCGen(d, kLambdaCPlus, <<kProton, -kKPlus, kPiPlus>>, 2).ok

\* C7: a generated particle gets a nonzero flag exactly when it is a Sigma_c0
\* (Sigma_c++) decaying into Lambda_c and the charge-appropriate pion with a
\* Lambda_c daughter decaying into p K pi; the flag then has the magnitude of
\* the channel code, and every other particle gets (0, 0)
C7_GenerationLevelMatching ==
  \A i \in 1..Len(rowMCMatchScGen) :
    LET row == rowMCMatchScGen[i]
    IN IF TrueSigmacChain(i - 1, kSigmaC0, kPiMinus)
       THEN Abs(row.flag) = Pow2(Sc0ToPKPiPi)
       ELSE IF TrueSigmacChain(i - 1, kSigmaCPlusPlus, kPiPlus)
       THEN Abs(row.flag) = Pow2(ScplusplusToPKPiPi)
       ELSE row = [flag |-> 0, origin |-> 0]

TypeOK ==
  /\ pc \in {"idle", "cand", "track", "done"}
  /\ pcMc \in {"idle", "rec", "gen", "done"}
====
